---- MODULE Spec2Model ----
(***************************************************************************)
(* A model of app-new5.py: the numeral normalizers, the entry parser       *)
(* (parse_entry), the bill-number extractor (extract_bill_no), the         *)
(* two-column document extractor (extract_data) and the greedy             *)
(* reconciliation loop (compare_entries).                                  *)
(*                                                                         *)
(* A Python str is modelled as a sequence of characters, each character a  *)
(* one-token TLA+ string.  The Gujarati digits U+0AE6..U+0AEF are written  *)
(* "g0".."g9" and the Devanagari (Hindi) digits U+0966..U+096F are written *)
(* "h0".."h9"; each stands for one code point.                             *)
(***************************************************************************)
EXTENDS Integers, Sequences, FiniteSets, TLC

VARIABLES
    \* compare_entries
    party1, party2, criteria, results, matched_indices, i, j, match, idx, pc, paired,
    \* parse_entry / normalize_amount
    ptext, ptrans, pentry, pnorm, pnorm2, ppc,
    \* extract_data
    credit, debit, width, lines_seen, xpc

cvars == <<party1, party2, criteria, results, matched_indices, i, j, match, idx, pc, paired>>
pvars == <<ptext, ptrans, pentry, pnorm, pnorm2, ppc>>
xvars == <<credit, debit, width, lines_seen, xpc>>
vars == <<cvars, pvars, xvars>>

(***************************************************************************)
(* Characters and character classes                                        *)
(***************************************************************************)
gujarati_digits == <<"g0", "g1", "g2", "g3", "g4", "g5", "g6", "g7", "g8", "g9">>
hindi == <<"h0", "h1", "h2", "h3", "h4", "h5", "h6", "h7", "h8", "h9">>
eng_digits == <<"0", "1", "2", "3", "4", "5", "6", "7", "8", "9">>

Range(s) == {s[k] : k \in DOMAIN s}

\* [0-9] in a Python regular expression: the ASCII digits only.
AsciiDigits == Range(eng_digits)

\* \d in a Python 3 str regular expression: every Unicode decimal digit.
Digits == Range(eng_digits) \cup Range(hindi) \cup Range(gujarati_digits)
IsDigit(c) == c \in Digits

LowerLetters == <<"a", "b", "c", "d", "e", "f", "g", "h", "i", "j", "k", "l", "m",
                  "n", "o", "p", "q", "r", "s", "t", "u", "v", "w", "x", "y", "z">>
UpperLetters == <<"A", "B", "C", "D", "E", "F", "G", "H", "I", "J", "K", "L", "M",
                  "N", "O", "P", "Q", "R", "S", "T", "U", "V", "W", "X", "Y", "Z">>

\* [A-Z]
UpperSet == Range(UpperLetters)

IndexOf(s, c) == CHOOSE k \in DOMAIN s : s[k] = c

\* str.upper() on one character
UpperChar(c) == IF c \in Range(LowerLetters) THEN UpperLetters[IndexOf(LowerLetters, c)] ELSE c

\* str.upper()
Upper(t) == [k \in DOMAIN t |-> UpperChar(t[k])]

\* s[a..b] as a sequence, empty when b < a
Slice(t, a, b) == IF b < a THEN <<>> ELSE SubSeq(t, a, b)

\* The number of consecutive characters of t, from position k on, that are in
\* the class cls: the greedy match of a starred character class.
RECURSIVE RunLen(_, _, _)
RunLen(t, k, cls) ==
    IF k > Len(t) \/ t[k] \notin cls THEN 0 ELSE 1 + RunLen(t, k + 1, cls)

\* str.translate with a table that maps from[k] to to[k] and deletes the
\* characters of del (str.maketrans(from, to, del): an entry of del wins).
RECURSIVE Translate(_, _, _, _)
Translate(t, from, to, del) ==
    IF t = <<>> THEN <<>>
    ELSE LET c == Head(t)
             rest == Translate(Tail(t), from, to, del)
         IN  IF c \in Range(del) THEN rest
             ELSE IF c \in Range(from) THEN <<to[IndexOf(from, c)]>> \o rest
             ELSE <<c>> \o rest

\* str.replace(c, "")
RECURSIVE RemoveChar(_, _)
RemoveChar(t, c) ==
    IF t = <<>> THEN <<>>
    ELSE IF Head(t) = c THEN RemoveChar(Tail(t), c)
    ELSE <<Head(t)>> \o RemoveChar(Tail(t), c)

(***************************************************************************)
(* normalize_amount                                                        *)
(***************************************************************************)
\* re.sub(r"[^\d.]", "", s)
RECURSIVE KeepDigitsAndDot(_)
KeepDigitsAndDot(t) ==
    IF t = <<>> THEN <<>>
    ELSE IF IsDigit(Head(t)) \/ Head(t) = "." THEN <<Head(t)>> \o KeepDigitsAndDot(Tail(t))
    ELSE KeepDigitsAndDot(Tail(t))

\* trans = str.maketrans(gujarati_digits, hindi, eng_digits): the third
\* argument of str.maketrans is the set of characters to delete.
normalize_amount(amount) ==
    KeepDigitsAndDot(Translate(amount, gujarati_digits, hindi, eng_digits))

(***************************************************************************)
(* parse_entry                                                             *)
(***************************************************************************)
None == [none |-> TRUE]

\* text.translate(str.maketrans(gujarati_digits, eng_digits))
parse_translate(text) == Translate(text, gujarati_digits, eng_digits, <<>>)

\* [\d,]
DigitOrComma == Digits \cup {","}

\* The length of the match of [\d,]+\.\d{2} starting at position k, 0 when
\* there is none.  The class [\d,] excludes ".", so the only way to match is
\* with the whole run of digits and commas that starts at k.
AmountMatchLen(t, k) ==
    LET run == RunLen(t, k, DigitOrComma)
    IN  IF /\ run >= 1
           /\ k + run + 2 <= Len(t)
           /\ t[k + run] = "."
           /\ IsDigit(t[k + run + 1])
           /\ IsDigit(t[k + run + 2])
        THEN run + 3 ELSE 0

\* re.search(r"([\d,]+\.\d{2})", text): the leftmost match, or None
AmountSearch(t) ==
    LET starts == {k \in 1..Len(t) : AmountMatchLen(t, k) > 0}
    IN  IF starts = {} THEN None
        ELSE LET k == CHOOSE a \in starts : \A b \in starts : a <= b
             IN  [group |-> SubSeq(t, k, k + AmountMatchLen(t, k) - 1)]

\* \d{2}/\d{2}/\d{4} matches at position k
DateMatchAt(t, k) ==
    /\ k + 9 <= Len(t)
    /\ \A o \in {0, 1, 3, 4, 6, 7, 8, 9} : IsDigit(t[k + o])
    /\ t[k + 2] = "/"
    /\ t[k + 5] = "/"

\* re.search(r"(\d{2}/\d{2}/\d{4})", text): the leftmost match, or None
DateSearch(t) ==
    LET starts == {k \in 1..Len(t) : DateMatchAt(t, k)}
    IN  IF starts = {} THEN None
        ELSE LET k == CHOOSE a \in starts : \A b \in starts : a <= b
             IN  [group |-> SubSeq(t, k, k + 9)]

parse_entry(text0) ==
    LET text == parse_translate(text0)
        amount_match == AmountSearch(text)
        date_match == DateSearch(text)
    IN  IF amount_match # None
        THEN [Amount |-> RemoveChar(amount_match.group, ","),
              Date |-> IF date_match # None THEN date_match.group ELSE <<>>,
              Raw |-> text]
        ELSE None

(***************************************************************************)
(* extract_bill_no                                                         *)
(***************************************************************************)
EmptyStr == <<>>

\* The length of the match of [A-Z]{2,}[0-9]*\/?\d*(?:-\d+)? at position k of
\* u, 0 when there is none.  Everything after the letters is optional, so
\* each greedy part takes all it can and nothing is ever given back.
BillMatchLen(u, k) ==
    LET letters == RunLen(u, k, UpperSet)
        n1 == RunLen(u, k + letters, AsciiDigits)
        p == k + letters + n1
        slash == IF p <= Len(u) /\ u[p] = "/" THEN 1 ELSE 0
        n2 == RunLen(u, p + slash, Digits)
        q == p + slash + n2
        n3 == IF q <= Len(u) /\ u[q] = "-" THEN RunLen(u, q + 1, Digits) ELSE 0
        dash == IF n3 >= 1 THEN 1 + n3 ELSE 0
    IN  IF letters >= 2 THEN letters + n1 + slash + n2 + dash ELSE 0

extract_bill_no(text) ==
    LET u == Upper(text)
        starts == {k \in 1..Len(u) : BillMatchLen(u, k) > 0}
    IN  IF starts = {} THEN EmptyStr
        ELSE LET k == CHOOSE a \in starts : \A b \in starts : a <= b
             IN  SubSeq(u, k, k + BillMatchLen(u, k) - 1)

(***************************************************************************)
(* datetime.strptime(date_str, "%d/%m/%Y") and the date arithmetic of      *)
(* compare_entries                                                         *)
(***************************************************************************)
ValueError == [exc |-> "ValueError"]

\* int() of one decimal digit of any script
DigitVal(c) ==
    IF c \in Range(eng_digits) THEN IndexOf(eng_digits, c) - 1
    ELSE IF c \in Range(hindi) THEN IndexOf(hindi, c) - 1
    ELSE IndexOf(gujarati_digits, c) - 1

RECURSIVE IntOf(_)
IntOf(t) == IF t = <<>> THEN 0 ELSE 10 * IntOf(SubSeq(t, 1, Len(t) - 1)) + DigitVal(t[Len(t)])

\* %d: 3[0-1]|[1-2]\d|0[1-9]|[1-9]| [1-9]
DirectiveD(t) ==
    \/ /\ Len(t) = 2
       /\ \/ t[1] = "3" /\ t[2] \in {"0", "1"}
          \/ t[1] \in {"1", "2"} /\ IsDigit(t[2])
          \/ t[1] = "0" /\ t[2] \in AsciiDigits \ {"0"}
          \/ t[1] = " " /\ t[2] \in AsciiDigits \ {"0"}
    \/ Len(t) = 1 /\ t[1] \in AsciiDigits \ {"0"}

\* %m: 1[0-2]|0[1-9]|[1-9]
DirectiveM(t) ==
    \/ /\ Len(t) = 2
       /\ \/ t[1] = "1" /\ t[2] \in {"0", "1", "2"}
          \/ t[1] = "0" /\ t[2] \in AsciiDigits \ {"0"}
    \/ Len(t) = 1 /\ t[1] \in AsciiDigits \ {"0"}

\* %Y: \d\d\d\d
DirectiveY(t) == Len(t) = 4 /\ \A k \in 1..4 : IsDigit(t[k])

IsLeap(y) == y % 4 = 0 /\ (y % 100 # 0 \/ y % 400 = 0)

DaysInMonth(y, m) ==
    IF m = 2 THEN (IF IsLeap(y) THEN 29 ELSE 28)
    ELSE IF m \in {4, 6, 9, 11} THEN 30 ELSE 31

\* The fields of the string between the "/" separators: the digits of the
\* three directives hold no "/", so the separators are the first two.
SlashPositions(t) == {k \in 1..Len(t) : t[k] = "/"}

strptime(t) ==
    LET sl == SlashPositions(t)
    IN  IF Cardinality(sl) # 2 THEN ValueError
        ELSE LET p1 == CHOOSE a \in sl : \A b \in sl : a <= b
                 p2 == CHOOSE a \in sl : \A b \in sl : a >= b
                 ds == Slice(t, 1, p1 - 1)
                 ms == Slice(t, p1 + 1, p2 - 1)
                 ys == Slice(t, p2 + 1, Len(t))
             IN  IF ~(DirectiveD(ds) /\ DirectiveM(ms) /\ DirectiveY(ys))
                 THEN ValueError
                 ELSE LET d == IntOf(IF ds[1] = " " THEN Tail(ds) ELSE ds)
                          m == IntOf(ms)
                          y == IntOf(ys)
                      IN  IF y < 1 \/ d > DaysInMonth(y, m) THEN ValueError
                          ELSE [year |-> y, month |-> m, day |-> d]

\* try: return datetime.strptime(...)  except Exception: return None
parse_date_safe(date_str) ==
    LET r == strptime(date_str)
    IN  IF r = ValueError THEN None ELSE r

\* date.toordinal(): the days from 01/01/0001, which is day 1
DaysBeforeYear(y) == (y - 1) * 365 + (y - 1) \div 4 - (y - 1) \div 100 + (y - 1) \div 400

RECURSIVE DaysBeforeMonth(_, _)
DaysBeforeMonth(y, m) == IF m = 1 THEN 0 ELSE DaysBeforeMonth(y, m - 1) + DaysInMonth(y, m - 1)

ToOrdinal(d) == DaysBeforeYear(d.year) + DaysBeforeMonth(d.year, d.month) + d.day

Abs(n) == IF n < 0 THEN -n ELSE n

\* a bug that would ask for the same day
is_date_match_exact(d1_str, d2_str) ==
    LET d1 == parse_date_safe(d1_str)
        d2 == parse_date_safe(d2_str)
    IN  IF d1 # None /\ d2 # None
        THEN Abs(ToOrdinal(d1) - ToOrdinal(d2)) = 0
        ELSE FALSE

\* a datetime is always true in a condition, so "d1 and d2" tests for None
is_date_match(d1_str, d2_str) ==
    LET d1 == parse_date_safe(d1_str)
        d2 == parse_date_safe(d2_str)
    IN  IF d1 # None /\ d2 # None
        THEN Abs(ToOrdinal(d1) - ToOrdinal(d2)) <= 1
        ELSE FALSE

\* whether an exception leaves is_date_match: one of the two parse_date_safe
\* calls lets the ValueError of strptime through
is_date_match_raises(d1_str, d2_str) ==
    parse_date_safe(d1_str) = ValueError \/ parse_date_safe(d2_str) = ValueError

\* a bug that would let two empty bill numbers differ
is_match_nonempty_bill(e1, e2, crit) ==
    IF e1.Amount # e2.Amount THEN FALSE
    ELSE IF "Date" \in crit /\ ~is_date_match(e1.Date, e2.Date) THEN FALSE
    ELSE IF "BillNo" \in crit /\ (\/ extract_bill_no(e1.Raw) # extract_bill_no(e2.Raw)
                                   \/ extract_bill_no(e1.Raw) = EmptyStr) THEN FALSE
    ELSE TRUE

is_match(e1, e2, crit) ==
    IF e1.Amount # e2.Amount THEN FALSE
    ELSE IF "Date" \in crit /\ ~is_date_match(e1.Date, e2.Date) THEN FALSE
    ELSE IF "BillNo" \in crit /\ extract_bill_no(e1.Raw) # extract_bill_no(e2.Raw) THEN FALSE
    ELSE TRUE

is_match_raises(e1, e2, crit) ==
    /\ e1.Amount = e2.Amount
    /\ "Date" \in crit
    /\ is_date_match_raises(e1.Date, e2.Date)

(***************************************************************************)
(* The parser and the normalizer applied to one input line                 *)
(***************************************************************************)
MaxLineLen == 4

ParseAlphabet == {"1", ".", ",", "x", "g2", "h3"}

\* "INV12 01/01/2024 1,234.50", the same line in Gujarati digits, a header
\* line without an amount, and a line whose date day has one digit.
SampleLines ==
    { <<"I", "N", "V", "1", "2", " ", "0", "1", "/", "0", "1", "/", "2", "0", "2", "4", " ", "1", ",", "2", "3", "4", ".", "5", "0">>,
      <<"g0", "g1", "/", "g0", "g1", "/", "g2", "g0", "g2", "g4", " ", "g5", "g0", "g0", ".", "g0", "g0">>,
      <<"D", "a", "t", "e", " ", "A", "m", "o", "u", "n", "t">>,
      <<"1", "/", "0", "1", "/", "2", "0", "2", "4", " ", "7", ".", "2", "5">> }

ParseInputs == UNION {[1..n -> ParseAlphabet] : n \in 0..MaxLineLen} \cup SampleLines

InitCompareIdle ==
    /\ party1 = <<>> /\ party2 = <<>> /\ criteria = {} /\ results = <<>>
    /\ matched_indices = {} /\ i = 0 /\ j = 0 /\ match = None /\ idx = 0
    /\ paired = <<>> /\ pc = "idle"

InitParseIdle ==
    /\ ptext = <<>> /\ ptrans = <<>> /\ pentry = None /\ pnorm = <<>>
    /\ pnorm2 = <<>> /\ ppc = "idle"

InitExtractIdle ==
    /\ credit = <<>> /\ debit = <<>> /\ width = 0
    /\ lines_seen = <<>> /\ xpc = "idle"

InitParse ==
    /\ ptext \in ParseInputs
    /\ ptrans = <<>> /\ pentry = None /\ pnorm = <<>> /\ pnorm2 = <<>>
    /\ ppc = "start"
    /\ InitCompareIdle
    /\ InitExtractIdle

\* entry = parse_entry(text); ptrans records text after line 33
CallParseEntry ==
    /\ ppc = "start"
    /\ ptrans' = parse_translate(ptext)
    /\ pentry' = parse_entry(ptext)
    /\ ppc' = "parsed"
    /\ UNCHANGED <<ptext, pnorm, pnorm2, cvars, xvars>>

\* normalize_amount(text)
CallNormalizeAmount ==
    /\ ppc = "parsed"
    /\ pnorm' = normalize_amount(ptext)
    /\ ppc' = "normalized"
    /\ UNCHANGED <<ptext, ptrans, pentry, pnorm2, cvars, xvars>>

\* normalize_amount applied to its own result
CallNormalizeAgain ==
    /\ ppc = "normalized"
    /\ pnorm2' = normalize_amount(pnorm)
    /\ ppc' = "done"
    /\ UNCHANGED <<ptext, ptrans, pentry, pnorm, cvars, xvars>>

NextParse == CallParseEntry \/ CallNormalizeAmount \/ CallNormalizeAgain

SpecParse == InitParse /\ [][NextParse]_vars

(***************************************************************************)
(* compare_entries                                                         *)
(*                                                                         *)
(* i, j and idx are the 0-based indices of enumerate(); party1[i + 1] is   *)
(* the entry Python calls party1[i].  paired is a history variable: the    *)
(* <<i, j>> of every assignment match = e2, in the order they were made.   *)
(***************************************************************************)
MaxLen == 2

Matched == "Match"
NoMatch == "No Match"

LenP1 == Len(party1)
LenP2 == Len(party2)

\* lines 97-105
Party1Row(e1, m) ==
    [status |-> IF m # None THEN Matched ELSE NoMatch,
     Party1_Amount |-> e1.Amount,
     Party2_Amount |-> IF m # None THEN m.Amount ELSE EmptyStr,
     Party1_Date |-> e1.Date,
     Party2_Date |-> IF m # None THEN m.Date ELSE EmptyStr,
     Party1_Credit |-> e1.Raw,
     Party2_Debit |-> IF m # None THEN m.Raw ELSE EmptyStr]

\* a bug that would write the party2 entry into the party1 columns
Party2Row_swapped(e2) ==
    [status |-> NoMatch,
     Party1_Amount |-> e2.Amount,
     Party2_Amount |-> EmptyStr,
     Party1_Date |-> e2.Date,
     Party2_Date |-> EmptyStr,
     Party1_Credit |-> e2.Raw,
     Party2_Debit |-> EmptyStr]

\* lines 109-117
Party2Row(e2) ==
    [status |-> NoMatch,
     Party1_Amount |-> EmptyStr,
     Party2_Amount |-> e2.Amount,
     Party1_Date |-> EmptyStr,
     Party2_Date |-> e2.Date,
     Party1_Credit |-> EmptyStr,
     Party2_Debit |-> e2.Raw]

\* a bug that would never skip a consumed index
Consumed_never(jj) == FALSE

\* line 91: if j in matched_indices
Consumed(jj) == jj \in matched_indices

\* a bug that would forget to record the consumed index
AddMatched_forget(jj) == matched_indices

\* line 95: matched_indices.add(j)
AddMatched(jj) == matched_indices \cup {jj}

\* a bug that would leave the inner loop at the first entry that fails
NextJ_break(jj) == Len(party2)

\* lines 90-93: the inner for loop moves on to the next index of party2
NextJ(jj) == jj + 1

\* a bug that would report every party2 entry as left over
Leftover_all(k) == TRUE

\* line 108: if idx not in matched_indices
Leftover(k) == k \notin matched_indices

\* for i, e1 in enumerate(party1): match = None, and the inner loop starts
OuterNext ==
    /\ pc = "outer"
    /\ i < LenP1
    /\ match' = None
    /\ j' = 0
    /\ pc' = "inner"
    /\ UNCHANGED <<party1, party2, criteria, results, matched_indices, i, idx, paired, pvars, xvars>>

\* party1 is exhausted: the second loop starts
OuterExit ==
    /\ pc = "outer"
    /\ i = LenP1
    /\ idx' = 0
    /\ pc' = "tail"
    /\ UNCHANGED <<party1, party2, criteria, results, matched_indices, i, j, match, paired, pvars, xvars>>

\* if j in matched_indices: continue
InnerSkip ==
    /\ pc = "inner"
    /\ j < LenP2
    /\ Consumed(j)
    /\ j' = NextJ(j)
    /\ UNCHANGED <<party1, party2, criteria, results, matched_indices, i, match, idx, pc, paired, pvars, xvars>>

\* if is_match(e1, e2): match = e2; matched_indices.add(j); break
InnerCheck ==
    /\ pc = "inner"
    /\ j < LenP2
    /\ ~Consumed(j)
    /\ LET e1 == party1[i + 1]
           e2 == party2[j + 1]
       IN  IF is_match_raises(e1, e2, criteria)
           THEN /\ pc' = "raised"
                /\ UNCHANGED <<j, match, matched_indices, paired>>
           ELSE IF is_match(e1, e2, criteria)
           THEN /\ match' = e2
                /\ matched_indices' = AddMatched(j)
                /\ paired' = Append(paired, <<i, j>>)
                /\ pc' = "append"
                /\ UNCHANGED j
           ELSE /\ j' = NextJ(j)
                /\ UNCHANGED <<match, matched_indices, paired, pc>>
    /\ UNCHANGED <<party1, party2, criteria, results, i, idx, pvars, xvars>>

\* party2 is exhausted without a break
InnerExit ==
    /\ pc = "inner"
    /\ j = LenP2
    /\ pc' = "append"
    /\ UNCHANGED <<party1, party2, criteria, results, matched_indices, i, j, match, idx, paired, pvars, xvars>>

\* results.append({...}) for e1, and on to the next party1 entry
AppendRow ==
    /\ pc = "append"
    /\ results' = Append(results, Party1Row(party1[i + 1], match))
    /\ i' = i + 1
    /\ pc' = "outer"
    /\ UNCHANGED <<party1, party2, criteria, matched_indices, j, match, idx, paired, pvars, xvars>>

\* for idx, e2 in enumerate(party2): if idx not in matched_indices: append
TailAppend ==
    /\ pc = "tail"
    /\ idx < LenP2
    /\ Leftover(idx)
    /\ results' = Append(results, Party2Row(party2[idx + 1]))
    /\ idx' = idx + 1
    /\ UNCHANGED <<party1, party2, criteria, matched_indices, i, j, match, pc, paired, pvars, xvars>>

TailSkip ==
    /\ pc = "tail"
    /\ idx < LenP2
    /\ ~Leftover(idx)
    /\ idx' = idx + 1
    /\ UNCHANGED <<party1, party2, criteria, results, matched_indices, i, j, match, pc, paired, pvars, xvars>>

\* return results
Return ==
    /\ pc = "tail"
    /\ idx = LenP2
    /\ pc' = "done"
    /\ UNCHANGED <<party1, party2, criteria, results, matched_indices, i, j, match, idx, paired, pvars, xvars>>

Next ==
    \/ OuterNext \/ OuterExit \/ InnerSkip \/ InnerCheck \/ InnerExit
    \/ AppendRow \/ TailAppend \/ TailSkip \/ Return

SeqsUpTo(S, n) == UNION {[1..k -> S] : k \in 0..n}

AllCriteria == SUBSET {"Date", "BillNo"}

\* The entries are what parse_entry makes of these statement lines.
\* "ab1 01/01/2024 5.00", "AB1 02/01/2024 5.00", "cd2 05/01/2024 5.00", "7.25"
CompareLines ==
    { <<"a", "b", "1", " ", "0", "1", "/", "0", "1", "/", "2", "0", "2", "4", " ", "5", ".", "0", "0">>,
      <<"A", "B", "1", " ", "0", "2", "/", "0", "1", "/", "2", "0", "2", "4", " ", "5", ".", "0", "0">>,
      <<"c", "d", "2", " ", "0", "5", "/", "0", "1", "/", "2", "0", "2", "4", " ", "5", ".", "0", "0">>,
      <<"7", ".", "2", "5">> }

EntryPool == {parse_entry(l) : l \in CompareLines}

InitCompareWith(pool1, pool2, crits) ==
    /\ party1 \in SeqsUpTo(pool1, MaxLen)
    /\ party2 \in SeqsUpTo(pool2, MaxLen)
    /\ criteria \in crits
    /\ results = <<>>
    /\ matched_indices = {}
    /\ i = 0 /\ j = 0 /\ idx = 0
    /\ match = None
    /\ paired = <<>>
    /\ pc = "outer"
    /\ InitParseIdle
    /\ InitExtractIdle

Init == InitCompareWith(EntryPool, EntryPool, AllCriteria)

Spec == Init /\ [][Next]_vars

(***************************************************************************)
(* Properties of compare_entries                                           *)
(***************************************************************************)
PairedIs == {paired[k][1] : k \in DOMAIN paired}
PairedJs == {paired[k][2] : k \in DOMAIN paired}

MatchedRows == {k \in DOMAIN results : results[k].status = Matched}

\* the party2 index paired with party1 index ii, -1 when there is none
PartnerOf(ii) ==
    IF ii \in PairedIs
    THEN paired[CHOOSE k \in DOMAIN paired : paired[k][1] = ii][2]
    ELSE -1

\* C1: the Matched rows are a one-to-one pairing: at every step no party2
\* index and no party1 index occurs in two pairs, matched_indices holds
\* exactly the paired party2 indices, and every Matched row appended so far
\* is the row of one pair and carries that pair's party2 entry.
C1_OneToOne ==
    /\ \A a, b \in DOMAIN paired :
          a # b => paired[a][1] # paired[b][1] /\ paired[a][2] # paired[b][2]
    /\ matched_indices = PairedJs
    /\ Cardinality(matched_indices) = Len(paired)
    /\ \A k \in DOMAIN results :
          k <= LenP1 =>
             /\ (results[k].status = Matched) = (k - 1 \in PairedIs)
             /\ results[k].status = Matched =>
                   /\ results[k].Party2_Amount = party2[PartnerOf(k - 1) + 1].Amount
                   /\ results[k].Party2_Date = party2[PartnerOf(k - 1) + 1].Date
                   /\ results[k].Party2_Debit = party2[PartnerOf(k - 1) + 1].Raw

\* two pairs were made although party2 holds the same entry twice
C1_Witness ==
    /\ pc = "done"
    /\ Len(paired) = 2
    /\ party2[1] = party2[2]
    /\ Cardinality(MatchedRows) = 2

SetMin(S) == CHOOSE a \in S : \A b \in S : a <= b

\* the party2 indices consumed by the party1 entries before index ii
ConsumedBefore(ii) == {paired[k][2] : k \in {n \in DOMAIN paired : paired[n][1] < ii}}

\* C2: when the inner loop is over for party1[i], the entry is paired with the
\* party2 entry of the smallest index that no earlier party1 entry consumed
\* and that satisfies is_match, and it is unmatched only when there is no
\* such index; a consumed index stays consumed; and for party1 = [a],
\* party2 = [x, y] of one amount with no criteria the result is the Matched
\* row of a and x followed by the No Match row of y.
C2_GreedyFirstAvailable ==
    /\ pc = "append" =>
          LET e1 == party1[i + 1]
              cands == {jj \in 0..(LenP2 - 1) :
                           /\ jj \notin ConsumedBefore(i)
                           /\ is_match(e1, party2[jj + 1], criteria)}
          IN  IF cands = {} THEN match = None /\ i \notin PairedIs
              ELSE /\ match = party2[SetMin(cands) + 1]
                   /\ j = SetMin(cands)
                   /\ paired[Len(paired)] = <<i, j>>
    /\ PairedJs \subseteq matched_indices
    /\ \A k \in DOMAIN paired : paired[k][1] < i \/ (paired[k][1] = i /\ pc = "append")
    /\ (/\ pc = "done" /\ criteria = {} /\ LenP1 = 1 /\ LenP2 = 2
        /\ party1[1].Amount = party2[1].Amount
        /\ party1[1].Amount = party2[2].Amount) =>
          /\ Len(results) = 2
          /\ results[1].status = Matched
          /\ results[1].Party1_Credit = party1[1].Raw
          /\ results[1].Party2_Debit = party2[1].Raw
          /\ results[2].status = NoMatch
          /\ results[2].Party1_Credit = EmptyStr
          /\ results[2].Party2_Debit = party2[2].Raw

\* one party1 entry, two different party2 entries of its amount, no criteria:
\* the first is taken and the second is left over
C2_Witness ==
    /\ pc = "done" /\ criteria = {} /\ LenP1 = 1 /\ LenP2 = 2
    /\ party1[1].Amount = party2[1].Amount
    /\ party1[1].Amount = party2[2].Amount
    /\ party2[1].Raw # party2[2].Raw
    /\ paired = <<(<<0, 0>>)>>

\* C3: the rows returned number len(party1) + len(party2) minus the number
\* of Matched rows.
C3_RowConservation ==
    pc = "done" => Len(results) = LenP1 + LenP2 - Cardinality(MatchedRows)

\* a run that ends with a Matched row and with leftovers of both parties
C3_Witness ==
    /\ pc = "done"
    /\ Cardinality(MatchedRows) = 1
    /\ LenP1 = 2 /\ LenP2 = 2
    /\ Len(results) = 3

\* the leftover rows of the first n entries of party2, in party2's order
RECURSIVE LeftoverRows(_)
LeftoverRows(n) ==
    IF n = 0 THEN <<>>
    ELSE LeftoverRows(n - 1) \o
         (IF (n - 1) \in PairedJs THEN <<>>
          ELSE << [status |-> NoMatch,
                   Party1_Amount |-> EmptyStr, Party2_Amount |-> party2[n].Amount,
                   Party1_Date |-> EmptyStr, Party2_Date |-> party2[n].Date,
                   Party1_Credit |-> EmptyStr, Party2_Debit |-> party2[n].Raw] >>)

\* the row of party1[k]: its own three fields, and its partner's or three
\* empty strings
ExpectedParty1Row(k) ==
    LET jj == PartnerOf(k - 1)
    IN  [status |-> IF jj >= 0 THEN Matched ELSE NoMatch,
         Party1_Amount |-> party1[k].Amount,
         Party2_Amount |-> IF jj >= 0 THEN party2[jj + 1].Amount ELSE EmptyStr,
         Party1_Date |-> party1[k].Date,
         Party2_Date |-> IF jj >= 0 THEN party2[jj + 1].Date ELSE EmptyStr,
         Party1_Credit |-> party1[k].Raw,
         Party2_Debit |-> IF jj >= 0 THEN party2[jj + 1].Raw ELSE EmptyStr]

\* C4: the result is the rows of party1 in party1's order, each with its
\* partner's fields or three empty strings, followed by the No Match rows of
\* the party2 entries never consumed, in party2's order, with empty party1
\* fields; at no step does a party2-only row stand before a party1 row.
C4_Layout ==
    /\ pc = "done" =>
          results = [k \in 1..LenP1 |-> ExpectedParty1Row(k)] \o LeftoverRows(LenP2)
    /\ \A k \in DOMAIN results :
          /\ k <= LenP1 => results[k] = ExpectedParty1Row(k)
          /\ k > LenP1 => /\ pc \in {"tail", "done"}
                          /\ results[k].Party1_Amount = EmptyStr
                          /\ results[k].Party1_Date = EmptyStr
                          /\ results[k].Party1_Credit = EmptyStr
                          /\ results[k].status = NoMatch

\* the second party1 entry took the first party2 entry, the first party1
\* entry found nothing, and the second party2 entry is left over
C4_Witness ==
    /\ pc = "done"
    /\ LenP1 = 2 /\ LenP2 = 2
    /\ paired = <<(<<1, 0>>)>>
    /\ Len(results) = 3
    /\ results[3].Party2_Debit = party2[2].Raw

EntryOfParty1Side(r) == [Amount |-> r.Party1_Amount, Date |-> r.Party1_Date, Raw |-> r.Party1_Credit]
EntryOfParty2Side(r) == [Amount |-> r.Party2_Amount, Date |-> r.Party2_Date, Raw |-> r.Party2_Debit]

\* C10: at every step, a party1 entry whose row says No Match fails is_match
\* against every party2 index outside matched_indices; and in the result no
\* No Match row of party1 and No Match row of party2 satisfy is_match.
C10_Maximal ==
    /\ \A k \in DOMAIN results :
          (k <= LenP1 /\ results[k].status = NoMatch) =>
             \A jj \in 0..(LenP2 - 1) :
                jj \notin matched_indices => ~is_match(party1[k], party2[jj + 1], criteria)
    /\ pc = "done" =>
          \A a, b \in DOMAIN results :
             (/\ results[a].status = NoMatch /\ results[a].Party2_Amount = EmptyStr
              /\ results[b].status = NoMatch /\ results[b].Party1_Amount = EmptyStr) =>
                ~is_match(EntryOfParty1Side(results[a]), EntryOfParty2Side(results[b]), criteria)

\* both parties keep an unmatched entry of the same amount, which the Date
\* criterion keeps apart
C10_Witness ==
    /\ pc = "done"
    /\ "Date" \in criteria
    /\ \E a, b \in DOMAIN results :
          /\ results[a].status = NoMatch /\ results[a].Party2_Amount = EmptyStr
          /\ results[b].status = NoMatch /\ results[b].Party1_Amount = EmptyStr
          /\ results[a].Party1_Amount = results[b].Party2_Amount
    /\ Cardinality(MatchedRows) = 1

(***************************************************************************)
(* compare_entries on statement lines that differ in their dates           *)
(***************************************************************************)
\* one amount; dates on both sides of a year end and of the end of February
\* in a leap year and in a common year, dates that are no calendar date
\* (31/02/2024, 29/02/2023) and lines without a date
DateLines1 ==
    { <<"0", "1", "/", "0", "1", "/", "2", "0", "2", "4", " ", "5", ".", "0", "0">>,
      <<"2", "8", "/", "0", "2", "/", "2", "0", "2", "4", " ", "5", ".", "0", "0">>,
      <<"0", "1", "/", "0", "3", "/", "2", "0", "2", "3", " ", "5", ".", "0", "0">>,
      <<"3", "1", "/", "0", "2", "/", "2", "0", "2", "4", " ", "5", ".", "0", "0">>,
      <<"5", ".", "0", "0">> }

DateLines2 ==
    { <<"3", "1", "/", "1", "2", "/", "2", "0", "2", "3", " ", "5", ".", "0", "0">>,
      <<"0", "2", "/", "0", "1", "/", "2", "0", "2", "4", " ", "5", ".", "0", "0">>,
      <<"0", "5", "/", "0", "1", "/", "2", "0", "2", "4", " ", "5", ".", "0", "0">>,
      <<"2", "9", "/", "0", "2", "/", "2", "0", "2", "4", " ", "5", ".", "0", "0">>,
      <<"0", "1", "/", "0", "3", "/", "2", "0", "2", "4", " ", "5", ".", "0", "0">>,
      <<"2", "8", "/", "0", "2", "/", "2", "0", "2", "3", " ", "5", ".", "0", "0">>,
      <<"2", "9", "/", "0", "2", "/", "2", "0", "2", "3", " ", "5", ".", "0", "0">>,
      <<"5", ".", "0", "0">> }

InitDate ==
    InitCompareWith({parse_entry(l) : l \in DateLines1},
                    {parse_entry(l) : l \in DateLines2},
                    {{"Date"}})

SpecDate == InitDate /\ [][Next]_vars

(***************************************************************************)
(* compare_entries on statement lines that differ in their bill numbers    *)
(***************************************************************************)
BillLines1 ==
    { <<"i", "n", "v", "1", "2", " ", "5", ".", "0", "0">>,
      <<"5", ".", "0", "0">>,
      <<"x", " ", "5", ".", "0", "0">>,
      <<"P", "O", "4", "5", "/", "9", " ", "5", ".", "0", "0">> }

BillLines2 ==
    { <<"I", "N", "V", "1", "2", " ", "5", ".", "0", "0">>,
      <<"5", ".", "0", "0">>,
      <<"y", " ", "5", ".", "0", "0">>,
      <<"P", "O", "4", "5", " ", "5", ".", "0", "0">>,
      <<"p", "o", "4", "5", "/", "9", " ", "5", ".", "0", "0">>,
      <<"R", "E", "F", "-", "1", "2", " ", "5", ".", "0", "0">>,
      <<"r", "e", "f", " ", "5", ".", "0", "0">>,
      <<"#", "1", " ", "7", ".", "2", "5">> }

InitBill ==
    InitCompareWith({parse_entry(l) : l \in BillLines1},
                    {parse_entry(l) : l \in BillLines2},
                    {{"BillNo"}})

SpecBill == InitBill /\ [][Next]_vars

\* a string of the shape DD/MM/YYYY in ASCII digits
IsDMY(t) ==
    /\ Len(t) = 10
    /\ t[3] = "/" /\ t[6] = "/"
    /\ \A k \in {1, 2, 4, 5, 7, 8, 9, 10} : t[k] \in AsciiDigits

Num(c) == CHOOSE n \in 0..9 : eng_digits[n + 1] = c

DMY(t) ==
    [day |-> 10 * Num(t[1]) + Num(t[2]),
     month |-> 10 * Num(t[4]) + Num(t[5]),
     year |-> 1000 * Num(t[7]) + 100 * Num(t[8]) + 10 * Num(t[9]) + Num(t[10])]

MonthLengths == <<31, 28, 31, 30, 31, 30, 31, 31, 30, 31, 30, 31>>

LastDayOf(d) ==
    IF d.month = 2 /\ (d.year % 400 = 0 \/ (d.year % 4 = 0 /\ d.year % 100 # 0))
    THEN 29 ELSE MonthLengths[d.month]

\* t is a calendar date
IsCalendarDate(t) ==
    /\ IsDMY(t)
    /\ DMY(t).year >= 1
    /\ DMY(t).month \in 1..12
    /\ DMY(t).day >= 1
    /\ DMY(t).day <= LastDayOf(DMY(t))

\* the day after d
Tomorrow(d) ==
    IF d.day < LastDayOf(d) THEN [d EXCEPT !.day = d.day + 1]
    ELSE IF d.month < 12 THEN [d EXCEPT !.day = 1, !.month = d.month + 1]
    ELSE [day |-> 1, month |-> 1, year |-> d.year + 1]

AtMostOneDayApart(t1, t2) ==
    /\ IsCalendarDate(t1)
    /\ IsCalendarDate(t2)
    /\ \/ DMY(t1) = DMY(t2)
       \/ Tomorrow(DMY(t1)) = DMY(t2)
       \/ Tomorrow(DMY(t2)) = DMY(t1)

\* the inner loop is about to test party1[i] against an unconsumed party2[j]
AboutToTest == pc = "inner" /\ j < LenP2 /\ j \notin matched_indices

TakesIt == pc' = "append" /\ match' = party2[j + 1] /\ j \in matched_indices'

\* C5: with Date among the criteria, an unconsumed party2 entry of the same
\* amount is taken exactly when both Date strings are calendar dates of the
\* shape DD/MM/YYYY that lie at most one day apart; an empty Date or one that
\* is no calendar date makes the pair no match, and no exception leaves
\* compare_entries.
C5_TolerantDate ==
    /\ [](pc # "raised")
    /\ [][ (/\ AboutToTest
            /\ "Date" \in criteria
            /\ "BillNo" \notin criteria
            /\ party1[i + 1].Amount = party2[j + 1].Amount)
           => /\ pc' # "raised"
              /\ TakesIt <=> AtMostOneDayApart(party1[i + 1].Date, party2[j + 1].Date) ]_vars

DateOf(line) == parse_entry(line).Date

\* the run ended with 01/01/2024 paired with 31/12/2023, across the year end,
\* and with the entry dated 31/02/2024 reported as No Match although an
\* entry of its amount dated 01/03/2024 was not consumed
C5_Witness ==
    /\ pc = "done"
    /\ "Date" \in criteria
    /\ LenP1 = 2 /\ LenP2 = 2
    /\ party1[1].Date = DateOf(<<"3", "1", "/", "0", "2", "/", "2", "0", "2", "4", " ", "5", ".", "0", "0">>)
    /\ party1[2].Date = DateOf(<<"0", "1", "/", "0", "1", "/", "2", "0", "2", "4", " ", "5", ".", "0", "0">>)
    /\ party2[1].Date = DateOf(<<"0", "1", "/", "0", "3", "/", "2", "0", "2", "4", " ", "5", ".", "0", "0">>)
    /\ party2[2].Date = DateOf(<<"3", "1", "/", "1", "2", "/", "2", "0", "2", "3", " ", "5", ".", "0", "0">>)
    /\ paired = <<(<<1, 1>>)>>
    /\ Len(results) = 3

IsLetter(c) == c \in Range(LowerLetters) \cup Range(UpperLetters)

\* no two letters stand side by side in t, so there is no bill token in it
NoBillToken(t) == \A k \in 1..(Len(t) - 1) : ~(IsLetter(t[k]) /\ IsLetter(t[k + 1]))

\* C6: with BillNo (and not Date) among the criteria, an unconsumed party2
\* entry of the same amount is taken exactly when extract_bill_no gives the
\* same string for both raw texts, and it is taken whenever neither raw text
\* holds a bill token.
C6_BillNo ==
    [][ (/\ AboutToTest
         /\ "BillNo" \in criteria
         /\ "Date" \notin criteria
         /\ party1[i + 1].Amount = party2[j + 1].Amount)
        => /\ TakesIt <=> (extract_bill_no(party1[i + 1].Raw) = extract_bill_no(party2[j + 1].Raw))
           /\ (NoBillToken(party1[i + 1].Raw) /\ NoBillToken(party2[j + 1].Raw)) => TakesIt ]_vars

\* two entries with different raw texts, neither with a bill token, are
\* reported as Matched under criteria = {BillNo}
C6_Witness ==
    /\ pc = "done"
    /\ criteria = {"BillNo"}
    /\ \E k \in DOMAIN results :
          /\ results[k].status = Matched
          /\ results[k].Party1_Credit # results[k].Party2_Debit
          /\ NoBillToken(results[k].Party1_Credit)
          /\ NoBillToken(results[k].Party2_Debit)
          /\ extract_bill_no(results[k].Party1_Credit) = EmptyStr

(***************************************************************************)
(* Properties of parse_entry and normalize_amount                          *)
(***************************************************************************)
\* t holds a token of the shape \d+\.\d{2}
HasAmountToken(t) ==
    \E k \in 1..(Len(t) - 3) :
       IsDigit(t[k]) /\ t[k + 1] = "." /\ IsDigit(t[k + 2]) /\ IsDigit(t[k + 3])

\* a has no thousands separator and ends in a decimal point and exactly
\* two digits, with no other decimal point
IsCanonicalAmount(a) ==
    /\ Len(a) >= 3
    /\ \A k \in DOMAIN a : a[k] # ","
    /\ a[Len(a) - 2] = "."
    /\ IsDigit(a[Len(a) - 1]) /\ IsDigit(a[Len(a)])
    /\ \A k \in DOMAIN a : a[k] = "." => k = Len(a) - 2

\* C7: parse_entry returns None for a line without a token of the shape
\* \d+\.\d{2}, and for a line with one it returns an entry whose Amount has
\* no thousands separator and exactly two fractional digits.
C7_ParserRejection ==
    ppc # "start" =>
       /\ ~HasAmountToken(ptext) => pentry = None
       /\ HasAmountToken(ptext) => pentry # None /\ IsCanonicalAmount(pentry.Amount)

IsAsciiNumeral(t) == \A k \in DOMAIN t : t[k] \in AsciiDigits \cup {"."}

\* C9: a string of ASCII digits and "." is left unchanged by normalize_amount
\* and by the translation that opens parse_entry, and normalize_amount
\* applied twice gives what it gives applied once.
C9_NormalizeNoOp ==
    (ppc = "done" /\ IsAsciiNumeral(ptext)) =>
       /\ ptrans = ptext
       /\ pnorm = ptext
       /\ pnorm2 = pnorm

(***************************************************************************)
(* extract_data                                                            *)
(*                                                                         *)
(* The document is read as the loops reach it: a page with its width, a    *)
(* block, a line with its bbox[0] and its spans.  lines_seen is a history  *)
(* variable: every line the inner loop has visited, with the width of its  *)
(* page.  The number of pages and of blocks is not bounded; the number of  *)
(* lines of the document is.                                               *)
(***************************************************************************)
MaxLines == 3

Widths == {4, 5}
Xs == {1, 2}

\* the spans of a line: an amount; a label and an amount with blanks around
\* them; a heading; nothing but blanks
SpanLists ==
    { << <<"5", ".", "0", "0">> >>,
      << <<" ", "a", "b">>,
         <<"7", ".", "2", "5", " ">> >>,
      << <<"h", "d", "r">> >>,
      << <<" ">>, <<>> >> }

Whitespace == {" "}

\* str.strip()
RECURSIVE LStrip(_)
LStrip(t) == IF t # <<>> /\ Head(t) \in Whitespace THEN LStrip(Tail(t)) ELSE t

RECURSIVE RStrip(_)
RStrip(t) ==
    IF t # <<>> /\ t[Len(t)] \in Whitespace THEN RStrip(SubSeq(t, 1, Len(t) - 1)) ELSE t

Strip(t) == LStrip(RStrip(t))

\* " ".join(span.strip() for span in spans if span.strip())
RECURSIVE JoinSpans(_)
JoinSpans(spans) ==
    IF spans = <<>> THEN <<>>
    ELSE LET h == Strip(Head(spans))
             rest == JoinSpans(Tail(spans))
         IN  IF h = <<>> THEN rest
             ELSE IF rest = <<>> THEN h
             ELSE h \o <<" ">> \o rest

\* a bug that would halve the width with floor division
IsLeft_floor(x, w) == x < w \div 2

\* x < mid_x with mid_x = page.rect.width / 2: the division is exact, so
\* x < width / 2 is 2 * x < width
IsLeft(x, w) == 2 * x < w

InitExtract ==
    /\ credit = <<>>
    /\ debit = <<>>
    /\ width = 0
    /\ lines_seen = <<>>
    /\ xpc = "pages"
    /\ InitCompareIdle
    /\ InitParseIdle

\* for page in doc: blocks = ...; mid_x = page.rect.width / 2
NextPage ==
    /\ xpc = "pages"
    /\ \E w \in Widths : width' = w
    /\ xpc' = "blocks"
    /\ UNCHANGED <<credit, debit, lines_seen, cvars, pvars>>

\* for block in blocks: a block with lines
NextBlock ==
    /\ xpc = "blocks"
    /\ xpc' = "lines"
    /\ UNCHANGED <<credit, debit, width, lines_seen, cvars, pvars>>

\* a block without the key "lines" (an image): block.get("lines", []) is
\* empty and the loop over the blocks goes on
ImageBlock ==
    /\ xpc = "blocks"
    /\ UNCHANGED <<credit, debit, width, lines_seen, xpc, cvars, pvars>>

\* the body of the loop over the lines of a block, lines 52-59
NextLine ==
    /\ xpc = "lines"
    /\ Len(lines_seen) < MaxLines
    /\ \E x \in Xs, spans \in SpanLists :
          LET text == JoinSpans(spans)
              entry == parse_entry(text)
          IN  /\ lines_seen' = Append(lines_seen, [x |-> x, width |-> width, text |-> text])
              /\ IF text = <<>> THEN UNCHANGED <<credit, debit>>
                 ELSE IF entry = None THEN UNCHANGED <<credit, debit>>
                 ELSE IF IsLeft(x, width)
                 THEN credit' = Append(credit, entry) /\ UNCHANGED debit
                 ELSE debit' = Append(debit, entry) /\ UNCHANGED credit
    /\ UNCHANGED <<width, xpc, cvars, pvars>>

\* the lines of the block are exhausted
EndBlock ==
    /\ xpc = "lines"
    /\ xpc' = "blocks"
    /\ UNCHANGED <<credit, debit, width, lines_seen, cvars, pvars>>

\* the blocks of the page are exhausted
EndPage ==
    /\ xpc = "blocks"
    /\ xpc' = "pages"
    /\ UNCHANGED <<credit, debit, width, lines_seen, cvars, pvars>>

\* return credit, debit
ReturnExtract ==
    /\ xpc = "pages"
    /\ xpc' = "done"
    /\ UNCHANGED <<credit, debit, width, lines_seen, cvars, pvars>>

NextExtract ==
    \/ NextPage \/ NextBlock \/ ImageBlock \/ NextLine
    \/ EndBlock \/ EndPage \/ ReturnExtract

SpecExtract == InitExtract /\ [][NextExtract]_vars

\* the entries of the accepted lines among the first n visited that lie on
\* the given side of their page, in the order they were visited
RECURSIVE EntriesOnSide(_, _)
EntriesOnSide(n, left) ==
    IF n = 0 THEN <<>>
    ELSE LET l == lines_seen[n]
             here == /\ l.text # <<>>
                     /\ parse_entry(l.text) # None
                     /\ (2 * l.x < l.width) = left
         IN  EntriesOnSide(n - 1, left) \o (IF here THEN <<parse_entry(l.text)>> ELSE <<>>)

AcceptedLines == {n \in DOMAIN lines_seen : parse_entry(lines_seen[n].text) # None}

\* C8: at every step, credit is the entries of the accepted lines with
\* x < width / 2 and debit the entries of the accepted lines with
\* x >= width / 2, each in the order of the pages and of the lines within
\* them; every accepted line is in exactly one list and no rejected line is
\* in any.
C8_ColumnPartition ==
    /\ credit = EntriesOnSide(Len(lines_seen), TRUE)
    /\ debit = EntriesOnSide(Len(lines_seen), FALSE)
    /\ Len(credit) + Len(debit) = Cardinality(AcceptedLines)

\* two pages of widths 5 and 4, a line at x = 2 on each with different
\* texts, and a heading: the first went left, the second, at exactly half
\* the width, went right, the heading nowhere
C8_Witness ==
    /\ xpc = "done"
    /\ Len(lines_seen) = 3
    /\ \E a, b, c \in DOMAIN lines_seen :
          /\ a < b
          /\ lines_seen[a].x = 2 /\ lines_seen[a].width = 5
          /\ lines_seen[b].x = 2 /\ lines_seen[b].width = 4
          /\ parse_entry(lines_seen[c].text) = None /\ lines_seen[c].text # <<>>
          /\ Len(credit) = 1 /\ Len(debit) = 1
          /\ credit[1].Raw = lines_seen[a].text
          /\ debit[1].Raw = lines_seen[b].text
          /\ credit[1] # debit[1]

====
